---- MODULE Spec2Model ----
(***************************************************************************)
(* TaskFlex (src/app.py): a Flask + SQLAlchemy service with two tables,    *)
(* User and Task, and six JSON endpoints.                                  *)
(*                                                                         *)
(* Spec      every request is handled to completion before the next one    *)
(*           starts (one atomic action per handler).                       *)
(* SpecConc  two workers handle requests at the same time; a handler's     *)
(*           queries and its commit are separate steps, and the store's    *)
(*           UNIQUE constraints are checked at commit.                     *)
(***************************************************************************)
EXTENDS Integers, FiniteSets, Sequences, TLC

VARIABLES
    backend,     \* which store SQLALCHEMY_DATABASE_URI selects
    users,       \* rows of table user
    tasks,       \* rows of table task
    userSeq,     \* id sequence of table user (used by postgresql only)
    taskSeq,     \* id sequence of table task (used by postgresql only)
    req,         \* the request handled last
    resp,        \* the response returned last
    registered,  \* history: credentials and row id of every register that returned 201
    pc,          \* SpecConc: per worker, "idle" or the handler it is inside
    loc,         \* SpecConc: per worker, the request and the handler's local variables
    wresp,       \* SpecConc: per worker, the last response it returned
    started      \* SpecConc: number of requests accepted so far

vars == <<backend, users, tasks, userSeq, taskSeq, req, resp, registered, pc, loc, wresp, started>>
store == <<users, tasks>>
seqs == <<userSeq, taskSeq>>
conc == <<pc, loc, wresp, started>>

-----------------------------------------------------------------------------
(* Bounds and input sets *)

MaxTasks == 2      \* at most this many task rows at a time
MaxSeq == 2        \* at most this many ids drawn from a postgresql sequence
MaxStarted == 5    \* SpecConc: at most this many requests in a run

Workers == {1, 2}

None == "None"     \* Python None / JSON null

Backends == {"sqlite", "postgresql"}
Usernames == {"ana", "bob"}
Emails == {"ana@x.com", "bob@x.com"}
Passwords == {"pw1", "pw2"}
Salts == {"s1"}
UserIds == {1, 2, 3}
TaskIds == {1, 2, 3}

Restrict(f, S) == [k \in S |-> f[k]]

Merge(f, g) == [k \in DOMAIN f \cup DOMAIN g |-> IF k \in DOMAIN f THEN f[k] ELSE g[k]]

\* register bodies: three complete ones (the third shares its username with
\* the second and its email with the first), one with each key removed, and
\* one with an empty username
CompleteBodies ==
    { [username |-> "ana", email |-> "ana@x.com", password |-> "pw1"],
      [username |-> "bob", email |-> "bob@x.com", password |-> "pw2"],
      [username |-> "bob", email |-> "ana@x.com", password |-> "pw2"] }

RegisterBodies ==
    CompleteBodies
    \cup { Restrict([username |-> "ana", email |-> "ana@x.com", password |-> "pw1"], S) :
             S \in {{"email", "password"}, {"username", "password"}, {"username", "email"}} }
    \cup { [username |-> "", email |-> "bob@x.com", password |-> "pw2"] }

LoginBodies ==
    [username : Usernames, password : Passwords]
    \cup { [password |-> "pw1"] }

\* create-task bodies: title and userId present or not, the optional fields
\* all omitted or all supplied
TaskOptionals ==
    { <<>>, [description |-> "d1", dueDate |-> "2025-01-01", priority |-> "high"] }

AddTaskBodies ==
    { Merge(b, o) : b \in [title : {"t1"}, userId : UserIds], o \in TaskOptionals }
    \cup { <<>>, [title |-> "t1"], [userId |-> 1] }

UpdateBodies ==
    { <<>>,
      [title |-> "t2", completed |-> TRUE],
      [description |-> "d1", dueDate |-> "2025-01-01", priority |-> "high"] }

-----------------------------------------------------------------------------
(* Python and store helpers *)

\* dict.get(k, default)
Get(data, k, default) == IF k \in DOMAIN data THEN data[k] ELSE default

\* Python truthiness of a JSON string or null: "not v"
Falsy(v) == v = None \/ v = ""

MaxId(rows) == IF rows = {} THEN 0 ELSE CHOOSE m \in {r.id : r \in rows} : \A r \in rows : r.id <= m

\* Integer primary key: sqlite hands out max(rowid)+1, postgresql the next value of a sequence
NewId(rows, seq) == IF backend = "sqlite" THEN MaxId(rows) + 1 ELSE seq + 1

NextSeq(seq) == IF backend = "sqlite" THEN seq ELSE seq + 1

CanInsert(seq) == backend = "sqlite" \/ seq < MaxSeq

\* User.set_password: a salted one-way hash of the password
set_password(password, salt) == [salt |-> salt, digest |-> <<salt, password>>]

\* slip: digest recomputed with the arguments in the wrong order
check_password_swapped(user, password) ==
    user.password_hash.digest = <<password, user.password_hash.salt>>

\* User.check_password
check_password(user, password) == user.password_hash.digest = <<user.password_hash.salt, password>>

\* User(username=..., email=...) with its password set, as inserted
User(id, username, email, password, salt) ==
    [id |-> id, username |-> username, email |-> email,
     password_hash |-> set_password(password, salt)]

\* the UNIQUE constraints of columns user.username and user.email
UniqueViolation(us, row) == \E u \in us : u.username = row.username \/ u.email = row.email

\* User.query.filter_by(username=...).first(), as the set of matching rows
ByUsername(us, username) == {u \in us : u.username = username}

ByEmail(us, email) == {u \in us : u.email = email}

\* Model.query.get(id), as the set of matching rows
QueryGet(rows, id) == {r \in rows : r.id = id}

\* Task(...) as inserted: column default completed=False
Task(id, title, description, due_date, priority, user_id) ==
    [id |-> id, title |-> title, description |-> description, due_date |-> due_date,
     priority |-> priority, completed |-> FALSE, user_id |-> user_id]

\* Task.to_dict
to_dict(t) ==
    [id |-> t.id, title |-> t.title, description |-> t.description, dueDate |-> t.due_date,
     priority |-> t.priority, completed |-> t.completed, userId |-> t.user_id]

-----------------------------------------------------------------------------
(* Responses *)

Msg(status, message) == [status |-> status, message |-> message]

MissingData == Msg(400, "Faltam dados obrigatorios")
AlreadyExists == Msg(409, "Usuario ou e-mail ja existe")
UserCreated == Msg(201, "Usuario criado com sucesso")
InvalidCredentials == Msg(401, "Credenciais invalidas")
UserNotFound == Msg(404, "Usuario nao encontrado")
IncompleteData == Msg(400, "Dados incompletos")
TaskNotFound == Msg(404, "Tarefa nao encontrada")
TaskDeleted == Msg(200, "Tarefa deletada com sucesso")
ServerError == Msg(500, "Internal Server Error")

LoginOk(user) ==
    [status |-> 200, message |-> "Login bem-sucedido", userId |-> user.id, username |-> user.username]

TaskResp(status, t) == [status |-> status, task |-> to_dict(t)]

TaskList(ts) == [status |-> 200, tasks |-> {to_dict(t) : t \in ts}]

\* marks that a handler's checks passed and it goes on to its commit
Proceed == [status |-> 0]

-----------------------------------------------------------------------------
(* Handler logic, as functions of the store *)

\* slip: the email lookup is left out
register_check_username_only(us, data) ==
    LET username == Get(data, "username", None)
        email == Get(data, "email", None)
        password == Get(data, "password", None)
    IN  IF Falsy(username) \/ Falsy(email) \/ Falsy(password) THEN MissingData
        ELSE IF ByUsername(us, username) # {} THEN AlreadyExists
        ELSE Proceed

\* register, lines 74-83: the presence check and the uniqueness lookup
register_check(us, data) ==
    LET username == Get(data, "username", None)
        email == Get(data, "email", None)
        password == Get(data, "password", None)
    IN  IF Falsy(username) \/ Falsy(email) \/ Falsy(password) THEN MissingData
        ELSE IF ByUsername(us, username) # {} \/ ByEmail(us, email) # {} THEN AlreadyExists
        ELSE Proceed

\* register, lines 85-86: the row to insert
register_row(us, seq, data, salt) ==
    User(NewId(us, seq), data.username, data.email, data.password, salt)

\* slip: an unknown username gets its own response
login_response_distinct(us, data) ==
    LET username == Get(data, "username", None)
        password == Get(data, "password", None)
        found == ByUsername(us, username)
    IN  IF found = {} THEN UserNotFound
        ELSE IF check_password(CHOOSE u \in found : TRUE, password)
        THEN LoginOk(CHOOSE u \in found : TRUE)
        ELSE InvalidCredentials

\* login, lines 95-104
login_response(us, data) ==
    LET username == Get(data, "username", None)
        password == Get(data, "password", None)
        found == ByUsername(us, username)
    IN  IF found # {} /\ check_password(CHOOSE u \in found : TRUE, password)
        THEN LoginOk(CHOOSE u \in found : TRUE)
        ELSE InvalidCredentials

\* slip: the filter on user_id is left out
get_user_tasks_response_unfiltered(us, ts, user_id) ==
    IF QueryGet(us, user_id) = {} THEN UserNotFound
    ELSE TaskList(ts)

\* get_user_tasks, lines 109-114
get_user_tasks_response(us, ts, user_id) ==
    IF QueryGet(us, user_id) = {} THEN UserNotFound
    ELSE TaskList({t \in ts : t.user_id = user_id})

\* slip: the user lookup comes before the presence check
add_task_check_lookup_first(us, data) ==
    IF "userId" \in DOMAIN data /\ QueryGet(us, data.userId) = {} THEN UserNotFound
    ELSE IF data = <<>> \/ "title" \notin DOMAIN data \/ "userId" \notin DOMAIN data THEN IncompleteData
    ELSE Proceed

\* slip: the user lookup is left out
add_task_check_no_lookup(us, data) ==
    IF data = <<>> \/ "title" \notin DOMAIN data \/ "userId" \notin DOMAIN data THEN IncompleteData
    ELSE Proceed

\* add_task, lines 119-126
add_task_check(us, data) ==
    IF data = <<>> \/ "title" \notin DOMAIN data \/ "userId" \notin DOMAIN data THEN IncompleteData
    ELSE IF QueryGet(us, data.userId) = {} THEN UserNotFound
    ELSE Proceed

\* slip: description without its default
add_task_row_no_default(ts, seq, data) ==
    Task(NewId(ts, seq), data.title, Get(data, "description", None), Get(data, "dueDate", None),
         Get(data, "priority", "medium"), data.userId)

\* add_task, lines 128-134
add_task_row(ts, seq, data) ==
    Task(NewId(ts, seq), data.title, Get(data, "description", ""), Get(data, "dueDate", None),
         Get(data, "priority", "medium"), data.userId)

\* slip: completed falls back to False instead of the stored value
update_task_row_reset(task, data) ==
    [task EXCEPT !.title = Get(data, "title", task.title),
                 !.description = Get(data, "description", task.description),
                 !.due_date = Get(data, "dueDate", task.due_date),
                 !.priority = Get(data, "priority", task.priority),
                 !.completed = Get(data, "completed", FALSE)]

\* update_task, lines 146-151
update_task_row(task, data) ==
    [task EXCEPT !.title = Get(data, "title", task.title),
                 !.description = Get(data, "description", task.description),
                 !.due_date = Get(data, "dueDate", task.due_date),
                 !.priority = Get(data, "priority", task.priority),
                 !.completed = Get(data, "completed", task.completed)]

\* update_task, line 153: the commit writes the attributes that changed to the
\* row with the task's id
update_commit(ts, task, updated) ==
    { IF r.id = task.id
      THEN [c \in DOMAIN r |-> IF task[c] # updated[c] THEN updated[c] ELSE r[c]]
      ELSE r : r \in ts }

\* slip: deletes every task of the task's owner
delete_rows_of_owner(ts, found) == {t \in ts : \A f \in found : t.user_id # f.user_id}

\* delete_task, line 163: db.session.delete(task)
delete_rows(ts, found) == ts \ found

-----------------------------------------------------------------------------
(* Spec: one request at a time *)

Init ==
    /\ backend \in Backends
    /\ users = {}
    /\ tasks = {}
    /\ userSeq = 0
    /\ taskSeq = 0
    /\ req = [op |-> "none"]
    /\ resp = Proceed
    /\ registered = {}
    /\ pc = [w \in Workers |-> "idle"]
    /\ loc = [w \in Workers |-> [op |-> "none"]]
    /\ wresp = [w \in Workers |-> Proceed]
    /\ started = 0

register(data, salt) ==
    LET check == register_check(users, data)
        new_user == register_row(users, userSeq, data, salt)
    IN  /\ req' = [op |-> "register", data |-> data]
        /\ IF check # Proceed
           THEN /\ resp' = check
                /\ UNCHANGED <<users, userSeq, registered>>
           ELSE IF UniqueViolation(users, new_user)
           THEN /\ resp' = ServerError
                /\ userSeq' = NextSeq(userSeq)
                /\ UNCHANGED <<users, registered>>
           ELSE /\ users' = users \cup {new_user}
                /\ userSeq' = NextSeq(userSeq)
                /\ registered' = registered \cup
                       {[username |-> data.username, password |-> data.password, id |-> new_user.id]}
                /\ resp' = UserCreated
        /\ UNCHANGED <<backend, tasks, taskSeq, conc>>

login(data) ==
    /\ req' = [op |-> "login", data |-> data]
    /\ resp' = login_response(users, data)
    /\ UNCHANGED <<backend, store, seqs, registered, conc>>

get_user_tasks(user_id) ==
    /\ req' = [op |-> "get_user_tasks", user_id |-> user_id]
    /\ resp' = get_user_tasks_response(users, tasks, user_id)
    /\ UNCHANGED <<backend, store, seqs, registered, conc>>

add_task(data) ==
    LET check == add_task_check(users, data)
        new_task == add_task_row(tasks, taskSeq, data)
    IN  /\ check = Proceed => Cardinality(tasks) < MaxTasks /\ CanInsert(taskSeq)
        /\ req' = [op |-> "add_task", data |-> data]
        /\ IF check # Proceed
           THEN /\ resp' = check
                /\ UNCHANGED <<tasks, taskSeq>>
           ELSE /\ tasks' = tasks \cup {new_task}
                /\ taskSeq' = NextSeq(taskSeq)
                /\ resp' = TaskResp(201, new_task)
        /\ UNCHANGED <<backend, users, userSeq, registered, conc>>

update_task(task_id, data) ==
    LET found == QueryGet(tasks, task_id)
    IN  /\ req' = [op |-> "update_task", task_id |-> task_id, data |-> data]
        /\ IF found = {}
           THEN /\ resp' = TaskNotFound
                /\ UNCHANGED tasks
           ELSE LET task == CHOOSE t \in found : TRUE
                    updated == update_task_row(task, data)
                IN  /\ tasks' = update_commit(tasks, task, updated)
                    /\ resp' = TaskResp(200, updated)
        /\ UNCHANGED <<backend, users, seqs, registered, conc>>

delete_task(task_id) ==
    LET found == QueryGet(tasks, task_id)
    IN  /\ req' = [op |-> "delete_task", task_id |-> task_id]
        /\ IF found = {}
           THEN /\ resp' = TaskNotFound
                /\ UNCHANGED tasks
           ELSE /\ tasks' = delete_rows(tasks, found)
                /\ resp' = TaskDeleted
        /\ UNCHANGED <<backend, users, seqs, registered, conc>>

Next ==
    \/ \E data \in RegisterBodies, salt \in Salts : register(data, salt)
    \/ \E data \in LoginBodies : login(data)
    \/ \E user_id \in UserIds : get_user_tasks(user_id)
    \/ \E data \in AddTaskBodies : add_task(data)
    \/ \E task_id \in TaskIds, data \in UpdateBodies : update_task(task_id, data)
    \/ \E task_id \in TaskIds : delete_task(task_id)

Spec == Init /\ [][Next]_vars

-----------------------------------------------------------------------------
(* SpecConc: two workers; a handler's queries and its commit are two steps *)

ConcLoginBodies == { [username |-> "ana", password |-> "pw1"] }

ConcAddTaskBodies == { [title |-> "t1", userId |-> 1], [title |-> "t1", userId |-> 2] }

ConcUpdateBodies == { [title |-> "t2", completed |-> TRUE] }

\* the worker returns: its response is recorded and it is idle again
Return(w, r) ==
    /\ wresp' = [wresp EXCEPT ![w] = r]
    /\ pc' = [pc EXCEPT ![w] = "idle"]

\* the worker accepts a request
Accept(w, request) ==
    /\ pc[w] = "idle"
    /\ started < MaxStarted
    /\ started' = started + 1
    /\ loc' = [loc EXCEPT ![w] = request]

\* the worker's checks passed; the commit follows as a later step
Continue(w, at) ==
    /\ pc' = [pc EXCEPT ![w] = at]
    /\ UNCHANGED wresp

c_register(w, data) ==
    LET check == register_check(users, data)
    IN  /\ Accept(w, [op |-> "register", data |-> data])
        /\ IF check # Proceed THEN Return(w, check) ELSE Continue(w, "register")
        /\ UNCHANGED <<backend, store, seqs, req, resp, registered>>

\* lines 85-90; the insert fails on the UNIQUE constraints, and the
\* IntegrityError is not caught
c_register_commit(w, salt) ==
    LET data == loc[w].data
        new_user == register_row(users, userSeq, data, salt)
    IN  /\ pc[w] = "register"
        /\ userSeq' = NextSeq(userSeq)
        /\ IF UniqueViolation(users, new_user)
           THEN /\ Return(w, ServerError)
                /\ UNCHANGED <<users, registered>>
           ELSE /\ users' = users \cup {new_user}
                /\ registered' = registered \cup
                       {[username |-> data.username, password |-> data.password, id |-> new_user.id]}
                /\ Return(w, UserCreated)
        /\ UNCHANGED <<backend, tasks, taskSeq, req, resp, loc, started>>

c_login(w, data) ==
    /\ Accept(w, [op |-> "login", data |-> data])
    /\ Return(w, login_response(users, data))
    /\ UNCHANGED <<backend, store, seqs, req, resp, registered>>

c_get_user_tasks(w, user_id) ==
    /\ Accept(w, [op |-> "get_user_tasks", user_id |-> user_id])
    /\ Return(w, get_user_tasks_response(users, tasks, user_id))
    /\ UNCHANGED <<backend, store, seqs, req, resp, registered>>

c_add_task(w, data) ==
    LET check == add_task_check(users, data)
    IN  /\ Accept(w, [op |-> "add_task", data |-> data])
        /\ IF check # Proceed THEN Return(w, check) ELSE Continue(w, "add_task")
        /\ UNCHANGED <<backend, store, seqs, req, resp, registered>>

\* lines 128-137
c_add_task_commit(w) ==
    LET new_task == add_task_row(tasks, taskSeq, loc[w].data)
    IN  /\ pc[w] = "add_task"
        /\ tasks' = tasks \cup {new_task}
        /\ taskSeq' = NextSeq(taskSeq)
        /\ Return(w, TaskResp(201, new_task))
        /\ UNCHANGED <<backend, users, userSeq, req, resp, registered, loc, started>>

c_update_task(w, task_id, data) ==
    LET found == QueryGet(tasks, task_id)
    IN  /\ pc[w] = "idle"
        /\ started < MaxStarted
        /\ started' = started + 1
        /\ IF found = {}
           THEN /\ loc' = [loc EXCEPT ![w] = [op |-> "update_task", task_id |-> task_id, data |-> data]]
                /\ Return(w, TaskNotFound)
           ELSE /\ loc' = [loc EXCEPT ![w] = [op |-> "update_task", task_id |-> task_id, data |-> data,
                                                 task |-> CHOOSE t \in found : TRUE]]
                /\ Continue(w, "update_task")
        /\ UNCHANGED <<backend, store, seqs, req, resp, registered>>

\* lines 147-154; the row may be gone by now, and then the commit (or the
\* reload in to_dict) raises
c_update_task_commit(w) ==
    LET task == loc[w].task
        updated == update_task_row(task, loc[w].data)
        now == update_commit(tasks, task, updated)
    IN  /\ pc[w] = "update_task"
        /\ tasks' = now
        /\ IF QueryGet(tasks, task.id) = {}
           THEN Return(w, ServerError)
           ELSE Return(w, TaskResp(200, CHOOSE t \in QueryGet(now, task.id) : TRUE))
        /\ UNCHANGED <<backend, users, seqs, req, resp, registered, loc, started>>

c_delete_task(w, task_id) ==
    LET found == QueryGet(tasks, task_id)
    IN  /\ Accept(w, [op |-> "delete_task", task_id |-> task_id])
        /\ IF found = {} THEN Return(w, TaskNotFound) ELSE Continue(w, "delete_task")
        /\ UNCHANGED <<backend, store, seqs, req, resp, registered>>

\* lines 163-165: DELETE ... WHERE id = task_id
c_delete_task_commit(w) ==
    /\ pc[w] = "delete_task"
    /\ tasks' = delete_rows(tasks, QueryGet(tasks, loc[w].task_id))
    /\ Return(w, TaskDeleted)
    /\ UNCHANGED <<backend, users, seqs, req, resp, registered, loc, started>>

NextConc ==
    \E w \in Workers :
        \/ \E data \in CompleteBodies : c_register(w, data)
        \/ \E salt \in Salts : c_register_commit(w, salt)
        \/ \E data \in ConcLoginBodies : c_login(w, data)
        \/ c_get_user_tasks(w, 1)
        \/ \E data \in ConcAddTaskBodies : c_add_task(w, data)
        \/ c_add_task_commit(w)
        \/ \E data \in ConcUpdateBodies : c_update_task(w, 1, data)
        \/ c_update_task_commit(w)
        \/ c_delete_task(w, 1)
        \/ c_delete_task_commit(w)

SpecConc == Init /\ [][NextConc]_vars

-----------------------------------------------------------------------------
(* Properties of Spec *)

\* JSON keys a client may set on update, and the keys of a serialized task
UpdatableKeys == {"title", "description", "dueDate", "priority", "completed"}

Present(data, k) == k \in DOMAIN data

Complete(data) ==
    /\ Present(data, "username") /\ data.username \notin {None, ""}
    /\ Present(data, "email") /\ data.email \notin {None, ""}
    /\ Present(data, "password") /\ data.password \notin {None, ""}

UniqueUsers ==
    \A u, v \in users : u # v => u.username # v.username /\ u.email # v.email /\ u.id # v.id

\* C1: a complete register request whose username or email is already taken
\* returns 409 and inserts no row; no two users share a username or an email.
C1_Step ==
    /\ UniqueUsers'
    /\ (/\ req'.op = "register"
        /\ Complete(req'.data)
        /\ \E u \in users : u.username = req'.data.username \/ u.email = req'.data.email)
       => /\ resp' = AlreadyExists
          /\ users' = users

C1_DuplicateRejected == [][C1_Step]_vars

C1_Witness ==
    /\ req.op = "register"
    /\ resp = AlreadyExists
    /\ \E u \in users : u.email = req.data.email /\ u.username # req.data.username
    /\ Cardinality(users) = 2

\* C2: once register(u, e, p) returned 201, every login with u and p returns
\* 200 with that user's id and u; no operation updates or deletes a user.
C2_Step ==
    /\ users \subseteq users'
    /\ (/\ req'.op = "login"
        /\ Present(req'.data, "username"))
       => \A r \in registered :
             (r.username = req'.data.username /\ r.password = req'.data.password)
             => /\ resp'.status = 200
                /\ resp'.userId = r.id
                /\ resp'.username = r.username

C2_LoginAfterRegister == [][C2_Step]_vars

C2_Witness ==
    /\ req.op = "login"
    /\ resp.status = 200
    /\ resp.userId = 2
    /\ tasks # {}

\* C3: a failed login returns the one 401 response, without userId or
\* username, whether the username is unknown or the password is wrong, and
\* login leaves the store unchanged.
C3_Step ==
    req'.op = "login"
    => /\ users' = users
       /\ tasks' = tasks
       /\ LET known == Present(req'.data, "username")
                         /\ \E u \in users : u.username = req'.data.username
              matches == \E r \in registered :
                            /\ Present(req'.data, "username")
                            /\ r.username = req'.data.username
                            /\ r.password = req'.data.password
          IN  (~known \/ ~matches)
              => /\ resp' = [status |-> 401, message |-> "Credenciais invalidas"]
                 /\ DOMAIN resp' = {"status", "message"}

C4_CreateEchoesInput ==
    (req.op = "add_task" /\ resp.status = 201)
    => LET d == req.data
           t == resp.task
       IN  /\ t.title = d.title
           /\ t.userId = d.userId
           /\ t.description = (IF Present(d, "description") THEN d.description ELSE "")
           /\ Present(d, "dueDate") => t.dueDate = d.dueDate
           /\ t.priority = (IF Present(d, "priority") THEN d.priority ELSE "medium")
           /\ t.completed = FALSE
           /\ \E row \in tasks :
                 /\ row.id = t.id /\ row.title = t.title /\ row.description = t.description
                 /\ row.due_date = t.dueDate /\ row.priority = t.priority
                 /\ row.completed = t.completed /\ row.user_id = t.userId
                 /\ \A other \in tasks \ {row} : other.id # row.id

C4_Witness ==
    /\ req.op = "add_task"
    /\ resp.status = 201
    /\ ~Present(req.data, "description")
    /\ Cardinality(tasks) = 2

\* C5: create-task returns 400 when title or userId is missing, 404 when both
\* are present and userId names no user; either way the store is unchanged.
C5_Step ==
    req'.op = "add_task"
    => LET d == req'.data
           missing == ~Present(d, "title") \/ ~Present(d, "userId")
       IN  /\ missing => resp'.status = 400 /\ users' = users /\ tasks' = tasks
           /\ (~missing /\ ~\E u \in users : u.id = d.userId)
              => resp'.status = 404 /\ users' = users /\ tasks' = tasks

C5_CreateRejected == [][C5_Step]_vars

C5_Witness ==
    /\ req.op = "add_task"
    /\ resp.status = 404
    /\ users # {}
    /\ tasks # {}

\* C6: update-task on an existing task returns 200 and changes exactly the
\* fields present in the body; id, userId, other tasks and users are kept;
\* on a missing id it returns 404 and changes nothing.
C6_Step ==
    req'.op = "update_task"
    => LET d == req'.data
           olds == {t \in tasks : t.id = req'.task_id}
       IN  /\ users' = users
           /\ olds = {} => resp'.status = 404 /\ tasks' = tasks
           /\ \A old \in olds :
                 /\ resp'.status = 200
                 /\ \E new \in tasks' :
                       /\ tasks' \ {new} = tasks \ {old}
                       /\ new.id = old.id
                       /\ new.user_id = old.user_id
                       /\ resp'.task = to_dict(new)
                       /\ \A k \in UpdatableKeys :
                             to_dict(new)[k] = (IF Present(d, k) THEN d[k] ELSE to_dict(old)[k])

C6_PartialUpdate == [][C6_Step]_vars

C6_Witness ==
    /\ req.op = "update_task"
    /\ resp.status = 200
    /\ req.data = [description |-> "d1", dueDate |-> "2025-01-01", priority |-> "high"]
    /\ resp.task.completed = TRUE
    /\ Cardinality(tasks) = 2

\* C7: delete-task on an existing id returns 200 and removes exactly that
\* task; until a create-task reuses the id, delete and update on it return
\* 404 and change nothing, so a second delete returns 404.
C7_Step ==
    /\ req'.op = "delete_task"
       => LET olds == {t \in tasks : t.id = req'.task_id}
          IN  /\ users' = users
              /\ olds # {} => resp'.status = 200 /\ tasks' = tasks \ olds /\ Cardinality(olds) = 1
              /\ olds = {} => resp'.status = 404 /\ tasks' = tasks
    /\ (req'.op = "update_task" /\ ~\E t \in tasks : t.id = req'.task_id)
       => resp'.status = 404 /\ users' = users /\ tasks' = tasks
    /\ \A id \in TaskIds :
          ((~\E t \in tasks : t.id = id) /\ (\E t \in tasks' : t.id = id))
          => req'.op = "add_task" /\ resp'.status = 201 /\ resp'.task.id = id
    /\ (/\ req.op = "delete_task" /\ resp.status = 200
        /\ req'.op = "delete_task" /\ req'.task_id = req.task_id)
       => resp'.status = 404

C7_DeleteThenNotFound == [][C7_Step]_vars

\* under postgresql an id at most taskSeq was handed out once, so a missing
\* one has been deleted
C7_Witness ==
    /\ backend = "postgresql"
    /\ req.op = "delete_task"
    /\ resp.status = 404
    /\ req.task_id <= taskSeq
    /\ tasks # {}

\* C8: list-tasks for user id n returns 404 when no user has id n, otherwise
\* 200 with exactly the stored tasks whose userId is n (possibly none), and
\* never changes the store.
C8_Step ==
    req'.op = "get_user_tasks"
    => LET n == req'.user_id
       IN  /\ users' = users
           /\ tasks' = tasks
           /\ (~\E u \in users : u.id = n) => resp'.status = 404
           /\ (\E u \in users : u.id = n)
              => /\ resp'.status = 200
                 /\ \A t \in tasks : t.user_id = n => to_dict(t) \in resp'.tasks
                 /\ \A j \in resp'.tasks : j.userId = n /\ \E t \in tasks : to_dict(t) = j

C8_ListExactlyOwnTasks == [][C8_Step]_vars

C8_Witness ==
    /\ req.op = "get_user_tasks"
    /\ resp.status = 200
    /\ resp.tasks # {}
    /\ \E t \in tasks : t.user_id # req.user_id

-----------------------------------------------------------------------------
(* Properties of SpecConc *)

\* C9: of two register requests with the same username (or email) that both
\* look up before either inserts, at most one creates a row and returns 201,
\* and the one that creates no row is answered 409.
C9_RaceAnsweredConflict ==
    /\ UniqueUsers
    /\ \A w \in Workers :
          (/\ pc[w] = "idle"
           /\ loc[w].op = "register"
           /\ wresp[w].status # 201)
          => wresp[w] = AlreadyExists
    /\ \A w, v \in Workers :
          (/\ w # v
           /\ pc[w] = "idle" /\ pc[v] = "idle"
           /\ loc[w].op = "register" /\ loc[v].op = "register"
           /\ \/ loc[w].data.username = loc[v].data.username
              \/ loc[w].data.email = loc[v].data.email)
          => ~(wresp[w].status = 201 /\ wresp[v].status = 201)

\* C10: every stored task's userId is the id of an existing user, under any
\* interleaving of the six operations.
C10_TaskOwnerExists == \A t \in tasks : \E u \in users : u.id = t.user_id

C10_Witness ==
    /\ \E t \in tasks : t.user_id = 2
    /\ \E w \in Workers : pc[w] = "register"

====
